---- MODULE Spec2Model ----
(***************************************************************************)
(* Model of the stochastic grammar of StochasticGrammar/Grammar.h: the     *)
(* rule registry m_pRules, the rule compiler (ParseRule and the Parse*/Add*)
(* helpers), ChangeRule, AddLeaveNode and GenerateSequence.                *)
(*                                                                         *)
(* Strings are sequences of one-character strings; positions are 0-based   *)
(* as in std::string, and size_t arithmetic is taken modulo SizeMod.       *)
(* Nodes live in a heap indexed by address; the registry and the owning    *)
(* fallback reference of an LNode are shared_ptr, every other child        *)
(* reference is a raw pointer.                                             *)
(***************************************************************************)
EXTENDS Integers, Sequences, FiniteSets, TLC

VARIABLES
    stringData, \* TRUE: Grammar<std::string>, FALSE: any other payload type
    reg,        \* m_pRules: rule name -> address of the node it owns
    heap,       \* address -> node
    last,       \* the last public operation and how it ended
    src,        \* history: how each registered name got its definition
    redef,      \* history: per name, the names redefined by a later compile
    steps,      \* number of registry operations so far
    eval        \* the evaluation in progress, when it is followed step by step

vars == <<stringData, reg, heap, last, src, redef, steps, eval>>

(***************************************************************************)
(* std::string                                                             *)
(***************************************************************************)
SizeMod == 2 ^ 16
NPOS == SizeMod - 1

SEQ_DEL == <<" ", "&", " ">>
SEL_DEL == <<" ", "|", " ">>
REP_DEL == <<" ", "#", " ">>
LND_DEL == <<" ", "-", ">", " ">>

Min(a, b) == IF a < b THEN a ELSE b
Max(a, b) == IF a < b THEN b ELSE a
MinOf(S) == CHOOSE x \in S : \A y \in S : x <= y

\* size_t addition and subtraction
SizeAdd(a, b) == (a + b) % SizeMod
SizeSub(a, b) == (a - b + SizeMod + SizeMod) % SizeMod

Chars(s) == {s[i] : i \in 1..Len(s)}

\* s.find(pat, from)
Find(s, pat, from) ==
    LET hits == {i \in from..(Len(s) - Len(pat)) :
                    \A k \in 1..Len(pat) : s[i + k] = pat[k]}
    IN IF hits = {} THEN NPOS ELSE MinOf(hits)

\* s.find_first_not_of(set, from)
FindFirstNotOf(s, set, from) ==
    LET hits == {i \in from..(Len(s) - 1) : s[i + 1] \notin Chars(set)}
    IN IF hits = {} THEN NPOS ELSE MinOf(hits)

\* s.substr(pos, count), for pos <= s.length()
Substr(s, pos, count) ==
    SubSeq(s, pos + 1, pos + Min(count, Len(s) - pos))

Contains(s, pat) == Find(s, pat, 0) # NPOS

\* the splitting loop of ParseSelectorRule and ParseSequenceRule
RECURSIVE SplitFrom(_, _, _)
SplitFrom(rule, del, lastPos) ==
    LET first == FindFirstNotOf(rule, del, lastPos)
    IN IF first = NPOS THEN <<>>
       ELSE LET nxt == Find(rule, del, first)
            IN <<Substr(rule, first, SizeSub(nxt, first))>>
                  \o SplitFrom(rule, del, nxt)

Split(rule, del) == SplitFrom(rule, del, 0)

\* std::stof on the decimal integers the model's rule texts contain:
\* leading blanks, an optional sign, then digits; what follows the digits is
\* ignored, and no digit at all is std::invalid_argument.
DigitChars == {"0", "1", "2", "3", "4", "5", "6", "7", "8", "9"}
DigitVal(c) ==
    CASE c = "0" -> 0 [] c = "1" -> 1 [] c = "2" -> 2 [] c = "3" -> 3
      [] c = "4" -> 4 [] c = "5" -> 5 [] c = "6" -> 6 [] c = "7" -> 7
      [] c = "8" -> 8 [] c = "9" -> 9

RECURSIVE DigitsValue(_, _, _)
DigitsValue(s, i, acc) ==
    IF i > Len(s) \/ s[i] \notin DigitChars THEN acc
    ELSE DigitsValue(s, i + 1, 10 * acc + DigitVal(s[i]))

stof(s) ==
    LET b == FindFirstNotOf(s, <<" ">>, 0)
        start == IF b = NPOS THEN Len(s) + 1 ELSE b + 1
        signed == start <= Len(s) /\ s[start] \in {"-", "+"}
        neg == signed /\ s[start] = "-"
        d == IF signed THEN start + 1 ELSE start
    IN IF d > Len(s) \/ s[d] \notin DigitChars
       THEN [ok |-> FALSE, val |-> 0]
       ELSE [ok |-> TRUE,
             val |-> IF neg THEN 0 - DigitsValue(s, d, 0)
                            ELSE DigitsValue(s, d, 0)]

(***************************************************************************)
(* Nodes and the heap                                                      *)
(***************************************************************************)
\* The recursion depth at which an LNode takes its fallback branch.
DepthLimit == 2

Node(kind, val, kids, weights, count, fb) ==
    [kind |-> kind, val |-> val, kids |-> kids, weights |-> weights,
     count |-> count, fb |-> fb, dead |-> FALSE]

LeafNode(value) == Node("Leaf", value, <<>>, <<>>, 0, 0)
SelectNode == Node("Selector", <<>>, <<>>, <<>>, 0, 0)
SequenceNode == Node("Sequence", <<>>, <<>>, <<>>, 0, 0)
RepetitionNode(child, times) == Node("Repetition", <<>>, <<child>>, <<>>, times, 0)
LNode(child, fallback) == Node("LNode", <<>>, <<child>>, <<>>, 0, fallback)

AddElement(node, child) == [node EXCEPT !.kids = Append(@, child)]
AddOption(node, child, weight) ==
    [node EXCEPT !.kids = Append(@, child), !.weights = Append(@, weight)]

\* Every raw child pointer equal to old becomes new; the owning fallback
\* reference of an LNode is fixed at construction.
SwapDependingNode(node, old, new) ==
    [node EXCEPT !.kids = [i \in 1..Len(node.kids) |->
                              IF node.kids[i] = old THEN new ELSE node.kids[i]]]

Range(f) == {f[x] : x \in DOMAIN f}

\* std::make_shared: a fresh address, or (reuse) the address of a node that
\* was destroyed while raw pointers to it remain.
Alloc(h, cx) ==
    LET stale == {a \in DOMAIN h : h[a].dead}
    IN IF cx.reuse /\ stale # {} THEN MinOf(stale)
       ELSE MinOf({a \in 1..(Cardinality(DOMAIN h) + 1) : a \notin DOMAIN h})

\* shared_ptr ownership: the nodes some registry entry, or the fallback
\* reference of an owned LNode, keeps alive.
RECURSIVE OwnedFrom(_, _)
OwnedFrom(h, S) ==
    LET more == {h[a].fb : a \in {b \in S \cap DOMAIN h : h[b].kind = "LNode"}}
    IN IF more \subseteq S THEN S ELSE OwnedFrom(h, S \cup more)

Owned(r, h) == OwnedFrom(h, Range(r))

RawTargets(h, S) ==
    UNION {Range(h[a].kids) : a \in S \cap DOMAIN h}

\* The heap once the locals of an operation are gone: unowned nodes are
\* destroyed; a destroyed node that an owned node still points to stays as
\* dead memory at its address.
Release(r, h) ==
    LET owned == Owned(r, h)
        stale == RawTargets(h, owned) \ owned
    IN [a \in (DOMAIN h) \cap (owned \cup stale) |->
          [h[a] EXCEPT !.dead = (a \notin owned)]]

(***************************************************************************)
(* Grammar: registry operations.  st = [reg, heap, err] is the grammar in  *)
(* the middle of an operation, err the exception in flight ("ok": none);   *)
(* cx = [str, g, reuse] is the payload type, the indeterminate length read *)
(* in ParseLNodeRule and the allocator's choice.                           *)
(***************************************************************************)
Ok(st) == st.err = "ok"
Throw(st, e) == [st EXCEPT !.err = e]
Put(st, name, a) ==
    [st EXCEPT !.reg = (name :> a) @@ st.reg]
New(st, cx, node) ==
    [st EXCEPT !.heap = (Alloc(st.heap, cx) :> node) @@ st.heap]

ChangeRule(st, ruleName, newNode) ==
    LET oldNode == st.reg[ruleName]
        r2 == [st.reg EXCEPT ![ruleName] = newNode]
    IN IF oldNode = newNode THEN st
       ELSE [st EXCEPT
               !.reg = r2,
               !.heap = [a \in DOMAIN st.heap |->
                           IF a \in Range(r2)
                           THEN SwapDependingNode(st.heap[a], oldNode, newNode)
                           ELSE st.heap[a]]]

\* the tail shared by the Add*Rule functions: replace or insert
Install(st, name, a) ==
    IF name \in DOMAIN st.reg THEN ChangeRule(st, name, a) ELSE Put(st, name, a)

\* AddSingleRule without the std::string specialisation
AddSingleRuleGeneric(st, cx, name, rule) ==
    IF rule \in DOMAIN st.reg THEN Install(st, name, st.reg[rule])
    ELSE Throw(st, "Rule404")

\* the std::string specialisation taken for every payload type
AddSingleRuleString(st, cx, name, rule) ==
    LET st1 == IF rule \in DOMAIN st.reg THEN st
               ELSE Put(New(st, cx, LeafNode(rule)), rule, Alloc(st.heap, cx))
    IN Install(st1, name, st1.reg[rule])

AddSingleRule(st, cx, name, rule) ==
    LET st1 == IF rule \in DOMAIN st.reg THEN st
               ELSE IF cx.str
                    THEN Put(New(st, cx, LeafNode(rule)), rule, Alloc(st.heap, cx))
                    ELSE Throw(st, "Rule404")
    IN IF Ok(st1) THEN Install(st1, name, st1.reg[rule]) ELSE st1

AddLeaveNode(st, cx, name, data) ==
    Put(New(st, cx, LeafNode(data)), name, Alloc(st.heap, cx))

RECURSIVE ParseRule(_, _, _, _)

\* resolve_or_compile: the "Non-existing subrule" step of every Add*Rule
Resolve(st, cx, rule) ==
    IF rule \in DOMAIN st.reg THEN st ELSE ParseRule(st, cx, rule, rule)

\* the loop of AddSelectorRule over rules[i..]; a is the node being built
RECURSIVE SelectorLoop(_, _, _, _, _)
SelectorLoop(st, cx, a, rules, i) ==
    IF i > Len(rules) THEN st
    ELSE LET st1 == Resolve(st, cx, rules[i].name)
         IN IF ~Ok(st1) THEN st1
            ELSE SelectorLoop(
                   [st1 EXCEPT !.heap[a] =
                       AddOption(@, st1.reg[rules[i].name], rules[i].weight)],
                   cx, a, rules, i + 1)

AddSelectorRule(st, cx, name, rules) ==
    LET a == Alloc(st.heap, cx)
        st1 == SelectorLoop(New(st, cx, SelectNode), cx, a, rules, 1)
    IN IF Ok(st1) THEN Install(st1, name, a) ELSE st1

\* the loop of AddSequenceRule over rules[i..]
RECURSIVE SequenceLoop(_, _, _, _, _)
SequenceLoop(st, cx, a, rules, i) ==
    IF i > Len(rules) THEN st
    ELSE LET st1 == Resolve(st, cx, rules[i])
         IN IF ~Ok(st1) THEN st1
            ELSE SequenceLoop(
                   [st1 EXCEPT !.heap[a] = AddElement(@, st1.reg[rules[i]])],
                   cx, a, rules, i + 1)

AddSequenceRule(st, cx, name, rules) ==
    LET a == Alloc(st.heap, cx)
        st1 == SequenceLoop(New(st, cx, SequenceNode), cx, a, rules, 1)
    IN IF Ok(st1) THEN Install(st1, name, a) ELSE st1

AddRepetitionRule(st, cx, name, rule, times) ==
    LET st1 == Resolve(st, cx, rule)
    IN IF ~Ok(st1) THEN st1
       ELSE Install(New(st1, cx, RepetitionNode(st1.reg[rule], times)),
                    name, Alloc(st1.heap, cx))

AddLNodeRule(st, cx, name, rule, fallbackRule) ==
    LET st1 == Resolve(st, cx, rule)
        st2 == IF Ok(st1) THEN Resolve(st1, cx, fallbackRule) ELSE st1
    IN IF ~Ok(st2) THEN st2
       ELSE Install(New(st2, cx, LNode(st2.reg[rule], st2.reg[fallbackRule])),
                    name, Alloc(st2.heap, cx))

(***************************************************************************)
(* Grammar: the rule compiler                                              *)
(***************************************************************************)
\* one clause of a selector: [weight] [rule]
WeightString(clause) == Substr(clause, 0, Find(clause, <<" ">>, 0))
ClauseRuleName(clause) ==
    Substr(clause, SizeAdd(Find(clause, <<" ">>, 0), 1),
           SizeSub(SizeSub(Len(clause), Len(WeightString(clause))), 1))

ParseSelectorRule(st, cx, name, rule) ==
    LET rules == Split(rule, SEL_DEL)
        weighted == [i \in 1..Len(rules) |->
                        [name |-> ClauseRuleName(rules[i]),
                         weight |-> stof(WeightString(rules[i])).val]]
    IN IF \E i \in 1..Len(rules) : ~stof(WeightString(rules[i])).ok
       THEN Throw(st, "invalid_argument")
       ELSE AddSelectorRule(st, cx, name, weighted)

ParseSequenceRule(st, cx, name, rule) ==
    AddSequenceRule(st, cx, name, Split(rule, SEQ_DEL))

ParseSingleRule(st, cx, name, rule) == AddSingleRule(st, cx, name, rule)

RepRuleName(rule) == Substr(rule, 0, Find(rule, REP_DEL, 0))
RepetitionString(rule) ==
    Substr(rule, Find(rule, REP_DEL, 0) + Len(REP_DEL),
           SizeSub(SizeSub(Len(rule), Len(RepRuleName(rule))), Len(REP_DEL)))

ParseRepetitionRule(st, cx, name, rule) ==
    IF stof(RepetitionString(rule)).ok
    THEN AddRepetitionRule(st, cx, name, RepRuleName(rule),
                           stof(RepetitionString(rule)).val)
    ELSE Throw(st, "invalid_argument")

\* "A -> B": the text left of the delimiter is the fallback rule
LFallbackName(rule) == Substr(rule, 0, Find(rule, LND_DEL, 0))
\* the text right of it; its length argument reads ruleName.length() while
\* ruleName is being constructed: g is that indeterminate value
LRuleName(rule, g) ==
    Substr(rule, Find(rule, LND_DEL, 0) + Len(LND_DEL),
           SizeSub(SizeSub(Len(rule), g), Len(LND_DEL)))

\* ParseLNodeRule passing the two names in the other order
ParseLNodeRuleSwapped(st, cx, name, rule) ==
    AddLNodeRule(st, cx, name, LFallbackName(rule), LRuleName(rule, cx.g))

ParseLNodeRule(st, cx, name, rule) ==
    AddLNodeRule(st, cx, name, LRuleName(rule, cx.g), LFallbackName(rule))

\* ParseRule looking for " & " before " -> "
ParseRuleSequenceFirst(st, cx, name, rule) ==
    IF Contains(rule, SEQ_DEL) THEN ParseSequenceRule(st, cx, name, rule)
    ELSE IF Contains(rule, LND_DEL) THEN ParseLNodeRule(st, cx, name, rule)
    ELSE IF Contains(rule, SEL_DEL) THEN ParseSelectorRule(st, cx, name, rule)
    ELSE IF Contains(rule, REP_DEL) THEN ParseRepetitionRule(st, cx, name, rule)
    ELSE ParseSingleRule(st, cx, name, rule)

ParseRule(st, cx, name, rule) ==
    IF Contains(rule, LND_DEL) THEN ParseLNodeRule(st, cx, name, rule)
    ELSE IF Contains(rule, SEQ_DEL) THEN ParseSequenceRule(st, cx, name, rule)
    ELSE IF Contains(rule, SEL_DEL) THEN ParseSelectorRule(st, cx, name, rule)
    ELSE IF Contains(rule, REP_DEL) THEN ParseRepetitionRule(st, cx, name, rule)
    ELSE ParseSingleRule(st, cx, name, rule)

(***************************************************************************)
(* Generation: Node::Parse(result, depth)                                  *)
(***************************************************************************)
Res(status, out) == [status |-> status, out |-> out]

ConcatRes(r1, r2) ==
    IF r1.status # "ok" THEN r1
    ELSE IF r2.status # "ok" THEN r2
    ELSE Res("ok", r1.out \o r2.out)

\* the options a weighted draw can return: option i is drawn by a sample in
\* [0, sum) that the running weight exceeds first at i
RECURSIVE SumTo(_, _)
SumTo(w, i) == IF i = 0 THEN 0 ELSE SumTo(w, i - 1) + w[i]

Drawable(w) ==
    {i \in 1..Len(w) :
        LET low == IF i = 1 THEN 0
                   ELSE Max(0, CHOOSE m \in {SumTo(w, j) : j \in 1..(i - 1)} :
                                  \A j \in 1..(i - 1) : SumTo(w, j) <= m)
        IN low < SumTo(w, i) /\ low < SumTo(w, Len(w))}

\* The possible results of evaluating the node at address a.  stack holds
\* the <<address, depth>> pairs under evaluation: meeting one again is an
\* unbounded recursion.  Reading a destroyed node is undefined: the stale
\* contents may still be read, or anything else may happen ("ub").
RECURSIVE Parse(_, _, _, _)
RECURSIVE ParseAll(_, _, _, _, _)
RECURSIVE ParseTimes(_, _, _, _, _)

ParseAll(h, kids, i, depth, stack) ==
    IF i > Len(kids) THEN {Res("ok", <<>>)}
    ELSE LET firsts == Parse(h, kids[i], depth, stack)
         IN IF \A r \in firsts : r.status # "ok" THEN firsts
            ELSE {ConcatRes(r1, r2) : r1 \in firsts,
                                      r2 \in ParseAll(h, kids, i + 1, depth, stack)}

ParseTimes(h, child, n, depth, stack) ==
    IF n <= 0 THEN {Res("ok", <<>>)}
    ELSE LET firsts == Parse(h, child, depth, stack)
         IN IF \A r \in firsts : r.status # "ok" THEN firsts
            ELSE {ConcatRes(r1, r2) : r1 \in firsts,
                                      r2 \in ParseTimes(h, child, n - 1, depth, stack)}

Parse(h, a, depth, stack) ==
    IF a \notin DOMAIN h THEN {Res("ub", <<>>)}
    ELSE IF <<a, depth>> \in stack THEN {Res("overflow", <<>>)}
    ELSE LET n == h[a]
             stk == stack \cup {<<a, depth>>}
             value ==
               CASE n.kind = "Leaf" -> {Res("ok", <<n.val>>)}
                 [] n.kind = "Sequence" -> ParseAll(h, n.kids, 1, depth, stk)
                 [] n.kind = "Selector" ->
                      IF Drawable(n.weights) = {} THEN {Res("ub", <<>>)}
                      ELSE UNION {Parse(h, n.kids[i], depth, stk) :
                                     i \in Drawable(n.weights)}
                 [] n.kind = "Repetition" ->
                      ParseTimes(h, n.kids[1], n.count, depth, stk)
                 [] n.kind = "LNode" ->
                      IF depth < DepthLimit
                      THEN Parse(h, n.kids[1], depth + 1, stk)
                      ELSE Parse(h, n.fb, depth, stk)
         IN IF n.dead THEN value \cup {Res("ub", <<>>)} ELSE value

\* what GenerateSequence(name) can return in the current grammar
Generate(r, h, name) == Parse(h, r[name], 0, {})

(***************************************************************************)
(* The public operations                                                   *)
(***************************************************************************)
\* fresh: the names the operation added to the registry
Op(op, name, text, g, err, out, fresh) ==
    [op |-> op, name |-> name, text |-> text, g |-> g, err |-> err, out |-> out,
     fresh |-> fresh]

Src(by, text) == [by |-> by, text |-> text]

\* Grammar::ParseRule(name, rule), called by the host.  A name the call
\* registers on the way was compiled from its own text (ParseRule(rule, rule)).
Compile(name, rule, g, reuse) ==
    LET cx == [str |-> stringData, g |-> g, reuse |-> reuse]
        st == ParseRule([reg |-> reg, heap |-> heap, err |-> "ok"], cx, name, rule)
        redefined == IF Ok(st) /\ name \in DOMAIN reg /\ st.reg[name] # reg[name]
                     THEN {name} ELSE {}
    IN /\ reg' = st.reg
       /\ heap' = Release(st.reg, st.heap)
       /\ last' = Op("compile", name, rule, g, st.err, <<>>,
                     DOMAIN st.reg \ DOMAIN reg)
       /\ src' = [n \in DOMAIN st.reg |->
                    IF n = name /\ Ok(st) THEN Src("compile", rule)
                    ELSE IF n \in DOMAIN reg THEN src[n]
                    ELSE Src("compile", n)]
       /\ redef' = [n \in DOMAIN st.reg |->
                      IF n = name /\ Ok(st) THEN {}
                      ELSE IF n \in DOMAIN reg THEN redef[n] \cup redefined
                      ELSE redefined]
       /\ steps' = steps + 1
       /\ UNCHANGED <<stringData, eval>>

\* Grammar::AddLeaveNode(name, data), called by the host
RegisterLeaf(name, data, reuse) ==
    LET cx == [str |-> stringData, g |-> 0, reuse |-> reuse]
        st == AddLeaveNode([reg |-> reg, heap |-> heap, err |-> "ok"], cx, name, data)
    IN /\ reg' = st.reg
       /\ heap' = Release(st.reg, st.heap)
       /\ last' = Op("leaf", name, data, 0, st.err, <<>>,
                     DOMAIN st.reg \ DOMAIN reg)
       /\ src' = [n \in DOMAIN st.reg |->
                    IF n = name THEN Src("leaf", data) ELSE src[n]]
       /\ redef' = [n \in DOMAIN st.reg |-> IF n = name THEN {} ELSE redef[n]]
       /\ steps' = steps + 1
       /\ UNCHANGED <<stringData, eval>>

\* GenerateSequence reading m_pRules[ruleName] without the find: operator[]
\* inserts an empty entry for a missing name
GenerateSequenceUnchecked(ruleName) ==
    /\ IF ruleName \notin DOMAIN reg
       THEN /\ last' = Op("generate", ruleName, <<>>, 0, "ub", <<>>, {ruleName})
            /\ reg' = (ruleName :> 0) @@ reg
       ELSE /\ \E r \in Generate(reg, heap, ruleName) :
                  last' = Op("generate", ruleName, <<>>, 0, r.status, r.out, {})
            /\ reg' = reg
    /\ UNCHANGED <<stringData, heap, src, redef, steps, eval>>

\* Grammar::GenerateSequence(ruleName)
GenerateSequence(ruleName) ==
    /\ IF ruleName \notin DOMAIN reg
       THEN last' = Op("generate", ruleName, <<>>, 0, "Rule404", <<>>, {})
       ELSE \E r \in Generate(reg, heap, ruleName) :
               last' = Op("generate", ruleName, <<>>, 0, r.status, r.out, {})
    /\ UNCHANGED <<stringData, reg, heap, src, redef, steps, eval>>

(***************************************************************************)
(* GenerateSequence followed call by call.  eval.work holds the calls of   *)
(* Node::Parse still to make, the next one first, each with the depth it   *)
(* is made with; eval.out is the result vector filled so far.              *)
(***************************************************************************)
\* what the call stack and the result vector can hold
EvalCap == 2 ^ (DepthLimit + 2)

Idle == [on |-> FALSE, status |-> "idle", name |-> <<>>, work |-> <<>>, out |-> <<>>]
Frame(a, d) == [a |-> a, d |-> d]

\* the call an LNode makes when evaluated at depth d, without the increment
LNodeBranchSameDepth(n, d) ==
    IF d < DepthLimit THEN Frame(n.kids[1], d) ELSE Frame(n.fb, d)

\* the call an LNode makes when evaluated at depth d
LNodeBranch(n, d) ==
    IF d < DepthLimit THEN Frame(n.kids[1], d + 1) ELSE Frame(n.fb, d)

\* the states an evaluation can be in after the call f, the rest of the
\* calls waiting
AfterCall(f, rest) ==
    IF f.a \notin DOMAIN heap THEN {[eval EXCEPT !.status = "ub"]}
    ELSE LET n == heap[f.a]
             calls(w) == [eval EXCEPT !.work = w \o rest]
             value ==
               CASE n.kind = "Leaf" ->
                      {[eval EXCEPT !.work = rest, !.out = Append(@, n.val)]}
                 [] n.kind = "Sequence" ->
                      {calls([i \in 1..Len(n.kids) |-> Frame(n.kids[i], f.d)])}
                 [] n.kind = "Selector" ->
                      IF Drawable(n.weights) = {}
                      THEN {[eval EXCEPT !.status = "ub"]}
                      ELSE {calls(<<Frame(n.kids[i], f.d)>>) :
                               i \in Drawable(n.weights)}
                 [] n.kind = "Repetition" ->
                      {calls([i \in 1..Max(n.count, 0) |-> Frame(n.kids[1], f.d)])}
                 [] n.kind = "LNode" ->
                      {calls(<<LNodeBranch(n, f.d)>>)}
         IN IF n.dead THEN value \cup {[eval EXCEPT !.status = "ub"]} ELSE value

\* GenerateSequence(ruleName) up to its call of Parse(result, 0)
BeginGenerate(ruleName) ==
    /\ ~eval.on
    /\ IF ruleName \notin DOMAIN reg
       THEN /\ last' = Op("generate", ruleName, <<>>, 0, "Rule404", <<>>, {})
            /\ eval' = eval
       ELSE /\ last' = Op("generate", ruleName, <<>>, 0, "running", <<>>, {})
            /\ eval' = [on |-> TRUE, status |-> "running", name |-> ruleName,
                        work |-> <<Frame(reg[ruleName], 0)>>, out |-> <<>>]
    /\ UNCHANGED <<stringData, reg, heap, src, redef, steps>>

\* one call of Node::Parse; a stack or a vector beyond EvalCap ends the
\* evaluation without a return
EvaluateStep ==
    /\ eval.on /\ eval.status = "running" /\ eval.work # <<>>
    /\ \E e \in AfterCall(Head(eval.work), Tail(eval.work)) :
         eval' = IF Len(e.work) > EvalCap \/ Len(e.out) > EvalCap
                 THEN [eval EXCEPT !.status = "overflow"]
                 ELSE e
    /\ UNCHANGED <<stringData, reg, heap, last, src, redef, steps>>

\* GenerateSequence returning result
EndGenerate ==
    /\ eval.on /\ eval.status = "running" /\ eval.work = <<>>
    /\ last' = Op("generate", eval.name, <<>>, 0, "ok", eval.out, {})
    /\ eval' = Idle
    /\ UNCHANGED <<stringData, reg, heap, src, redef, steps>>

(***************************************************************************)
(* Inputs                                                                  *)
(***************************************************************************)
tR == <<"R">>
tS == <<"S">>
tx == <<"x">>
tz == <<"z">>
tv == <<"v">>

MaxSteps == 2
MaxCompileSteps == 3
MaxParseSteps == 2
MaxGarbage == 2

Names == {tR, tS, tx}
Values == {tv}

\* one rule text of each kind, over the names
Texts ==
    { tx, tz,
      tR \o SEQ_DEL \o tx,
      tx \o REP_DEL \o <<"2">>,
      tx \o LND_DEL \o tR,
      <<"1", " ", "x">> \o SEL_DEL \o <<"1", " ", "z">> }

\* aliases, a sequence and a repetition, for the runs of compile alone
CompileTexts == { tx, tz, tR, tR \o SEQ_DEL \o tx, tx \o REP_DEL \o <<"2">> }

\* rule texts for the parser: operators mixed, weights and counts of either
\* sign, a clause without weight
ParseNames == {tR, tx}
ParseTexts ==
    { tx,
      tx \o SEQ_DEL \o tz \o LND_DEL \o tR,
      tR \o SEQ_DEL \o tx \o REP_DEL \o <<"2">>,
      <<"1", " ", "x">> \o SEL_DEL \o <<"2", " ", "z">> \o SEQ_DEL \o tR,
      <<"1", " ", "x">> \o SEL_DEL \o <<"2", " ", "z">> \o REP_DEL \o <<"2">>,
      <<"0", " ", "x">> \o SEL_DEL \o <<"-", "1", " ", "z">>,
      <<"2">> \o SEL_DEL \o <<"1", " ", "x">>,
      tx \o REP_DEL \o <<"-", "1">>,
      <<"1", " ", "x">> \o SEL_DEL \o <<"2", " ", "z">> \o LND_DEL \o tR
         \o REP_DEL \o <<"2">> }

\* The indeterminate length only matters to a text with " -> ": the values
\* taken are those that cut 0..MaxGarbage characters off the text right of
\* the delimiter.  The allocator's choice only matters when some destroyed
\* node is still pointed to.
Garbage(rule) ==
    IF Contains(rule, LND_DEL)
    THEN {Find(rule, LND_DEL, 0) + k : k \in 0..MaxGarbage}
    ELSE {0}
Reuse == IF \E a \in DOMAIN heap : heap[a].dead THEN BOOLEAN ELSE {FALSE}

Init ==
    /\ stringData \in BOOLEAN
    /\ reg = <<>>
    /\ heap = <<>>
    /\ last = Op("init", <<>>, <<>>, 0, "ok", <<>>, {})
    /\ src = <<>>
    /\ redef = <<>>
    /\ steps = 0
    /\ eval = Idle

CompileStep ==
    /\ steps < MaxSteps
    /\ \E name \in Names, rule \in Texts :
         \E g \in Garbage(rule), reuse \in Reuse :
            Compile(name, rule, g, reuse)

RegisterLeafStep ==
    /\ steps < MaxSteps
    /\ \E name \in Names, data \in Values, reuse \in Reuse :
         RegisterLeaf(name, data, reuse)

GenerateStep ==
    \E name \in Names \cup {tz} : GenerateSequence(name)

Next == CompileStep \/ RegisterLeafStep \/ GenerateStep

Spec == Init /\ [][Next]_vars

\* compile and generate alone, on a string grammar or any other
CompileOnlyStep ==
    /\ steps < MaxCompileSteps
    /\ \E name \in Names, rule \in CompileTexts, reuse \in Reuse :
         Compile(name, rule, 0, reuse)

NextCompile == CompileOnlyStep \/ GenerateStep

SpecCompile == Init /\ [][NextCompile]_vars

\* the parser on every kind of rule text, with leaves registered directly
ParseStep ==
    /\ steps < MaxParseSteps
    /\ \E name \in ParseNames, rule \in ParseTexts :
         \E g \in Garbage(rule), reuse \in Reuse :
            Compile(name, rule, g, reuse)

ParseLeafStep ==
    /\ steps < MaxParseSteps
    /\ \E name \in ParseNames, data \in Values, reuse \in Reuse :
         RegisterLeaf(name, data, reuse)

NextParse == ParseStep \/ ParseLeafStep

SpecParse == Init /\ [][NextParse]_vars

\* compiles that fail: an unparsable count or weight, first or in a later
\* sub-token, and (for other payload types) an unknown token
MaxErrorSteps == 2
ErrorTexts ==
    { tx,
      tR \o SEQ_DEL \o tx,
      tx \o REP_DEL \o tz,
      tx \o SEQ_DEL \o tz \o REP_DEL \o tz,
      tz \o REP_DEL \o tz \o LND_DEL \o tx,
      <<"1", " ", "x">> \o SEL_DEL \o <<"w", " ", "z">> }

ErrorCompileStep ==
    /\ steps < MaxErrorSteps
    /\ \E name \in ParseNames, rule \in ErrorTexts :
         \E g \in Garbage(rule), reuse \in Reuse :
            Compile(name, rule, g, reuse)

ErrorLeafStep ==
    /\ steps < MaxErrorSteps
    /\ \E name \in ParseNames, data \in Values, reuse \in Reuse :
         RegisterLeaf(name, data, reuse)

NextError == ErrorCompileStep \/ ErrorLeafStep

SpecError == Init /\ [][NextError]_vars

\* rules that refer to themselves and to each other, then generation
\* followed call by call; no registry operation runs during an evaluation
MaxGenSteps == 2
GenTexts ==
    { tx \o LND_DEL \o tR,
      tR \o SEQ_DEL \o tx,
      tx \o REP_DEL \o <<"2">> }

GenCompileStep ==
    /\ steps < MaxGenSteps /\ ~eval.on
    /\ \E name \in ParseNames, rule \in GenTexts :
         \E g \in Garbage(rule), reuse \in Reuse :
            Compile(name, rule, g, reuse)

GenLeafStep ==
    /\ steps < MaxGenSteps /\ ~eval.on
    /\ \E name \in ParseNames, data \in Values, reuse \in Reuse :
         RegisterLeaf(name, data, reuse)

GenBeginStep == \E name \in ParseNames \cup {tz} : BeginGenerate(name)

NextGenerate ==
    GenCompileStep \/ GenLeafStep \/ GenBeginStep \/ EvaluateStep \/ EndGenerate

\* evaluation is synchronous: a call that can be made is made
SpecGenerate ==
    Init /\ [][NextGenerate]_vars /\ WF_vars(EvaluateStep) /\ WF_vars(EndGenerate)

(***************************************************************************)
(* Properties                                                              *)
(***************************************************************************)
\* which operator ParseRule's precedence assigns to a rule text
IsLndText(t) == Contains(t, LND_DEL)
IsSeqText(t) == ~IsLndText(t) /\ Contains(t, SEQ_DEL)
IsSelText(t) == ~IsLndText(t) /\ ~Contains(t, SEQ_DEL) /\ Contains(t, SEL_DEL)
IsRepText(t) ==
    /\ ~IsLndText(t) /\ ~Contains(t, SEQ_DEL) /\ ~Contains(t, SEL_DEL)
    /\ Contains(t, REP_DEL)
IsBareText(t) ==
    /\ ~IsLndText(t) /\ ~Contains(t, SEQ_DEL) /\ ~Contains(t, SEL_DEL)
    /\ ~Contains(t, REP_DEL)

Compiled(l) == l.op = "compile" /\ l.err = "ok"

\* the addresses reachable from a along child and fallback references
RECURSIVE ReachFrom(_, _)
ReachFrom(h, S) ==
    LET more == UNION {Range(h[a].kids) \cup
                          (IF h[a].kind = "LNode" THEN {h[a].fb} ELSE {}) :
                       a \in S \cap DOMAIN h}
    IN IF more \subseteq S THEN S ELSE ReachFrom(h, S \cup more)

NoSelectorBelow(r, h, name) ==
    \A a \in ReachFrom(h, {r[name]}) \cap DOMAIN h : h[a].kind # "Selector"

\* C1: a rule S compiled as a Sequence that names R, R redefined by a later
\* compile(R, ...) and S not recompiled since: the child of S's node at R's
\* position is the node R is registered with, so generating S uses R's
\* current definition there, whatever was compiled in between.
C1Claim ==
    \A S \in DOMAIN reg :
      (src[S].by = "compile" /\ IsSeqText(src[S].text)) =>
        LET toks == Split(src[S].text, SEQ_DEL)
            n == heap[reg[S]]
        IN \A i \in 1..Len(toks) :
             toks[i] \in redef[S] =>
               /\ n.kind = "Sequence"
               /\ Len(n.kids) = Len(toks)
               /\ n.kids[i] = reg[toks[i]]

\* C2: register_leaf(N, v) on a registered name N rewrites every reference
\* that a live node holds to N's old node (child or fallback) into a
\* reference to the new Leaf.
C2Claim ==
    [][(last'.op = "leaf" /\ last'.name \in DOMAIN reg) =>
         \A a \in DOMAIN heap :
           (~heap[a].dead /\ a \in DOMAIN heap' /\ ~heap'[a].dead) =>
             /\ \A i \in 1..Len(heap[a].kids) :
                  heap[a].kids[i] = reg[last'.name] =>
                    heap'[a].kids[i] = reg'[last'.name]
             /\ (heap[a].kind = "LNode" /\ heap[a].fb = reg[last'.name]) =>
                  heap'[a].fb = reg'[last'.name]]_vars

\* C3 as claimed: compile(name, "A -> B") installs a Fallback node whose
\* primary child is the node of A, the text left of the first " -> ", and
\* whose fallback child is the node of B, the text right of it.
RightOfLnd(t) == SubSeq(t, Find(t, LND_DEL, 0) + Len(LND_DEL) + 1, Len(t))

C4Claim ==
    \A S \in DOMAIN reg :
      (/\ src[S].by = "compile" /\ IsSeqText(src[S].text)
       /\ Len(Split(src[S].text, SEQ_DEL)) = 2) =>
        LET A == Split(src[S].text, SEQ_DEL)[1]
            B == Split(src[S].text, SEQ_DEL)[2]
        IN (NoSelectorBelow(reg, heap, A) /\ NoSelectorBelow(reg, heap, B)) =>
             Generate(reg, heap, S) =
               {ConcatRes(a, b) : a \in Generate(reg, heap, A),
                                  b \in Generate(reg, heap, B)}

\* C5: generate_sequence on a name that is not registered fails with
\* RuleNotFound, returns no sequence and leaves the registry and its nodes
\* as they were: no entry is created for the name.
C5Theorem ==
    [][(last'.op = "generate" /\ last'.name \notin DOMAIN reg) =>
         /\ last'.err = "Rule404"
         /\ last'.out = <<>>
         /\ reg' = reg
         /\ heap' = heap]_vars

\* a failed lookup in a grammar that holds rules
C5Witness ==
    /\ last.op = "generate" /\ last.err = "Rule404"
    /\ last.name \notin DOMAIN reg
    /\ reg # <<>>

\* C6: after a successful compile(name, text) the node under name is a
\* Fallback if text contains " -> ", else a Sequence if it contains " & ",
\* else a Selector if it contains " | ", else a Repetition if it contains
\* " # ", else the node the bare token is registered with.
C6Theorem ==
    Compiled(last) =>
      /\ last.name \in DOMAIN reg
      /\ LET t == last.text
             n == heap[reg[last.name]]
         IN IF Contains(t, LND_DEL) THEN n.kind = "LNode"
            ELSE IF Contains(t, SEQ_DEL) THEN n.kind = "Sequence"
            ELSE IF Contains(t, SEL_DEL) THEN n.kind = "Selector"
            ELSE IF Contains(t, REP_DEL) THEN n.kind = "Repetition"
            ELSE t \in DOMAIN reg /\ reg[last.name] = reg[t]

\* a text with a lower-precedence operator left of " -> ", compiled
C6Witness ==
    /\ Compiled(last)
    /\ Contains(last.text, LND_DEL)
    /\ Find(last.text, SEQ_DEL, 0) < Find(last.text, LND_DEL, 0)
    /\ heap[reg[last.name]].kind = "LNode"

\* C7: no Selector carries a weight <= 0, and compiling a selector with
\* such a clause fails with NonPositiveWeight.
C7Claim ==
    /\ \A a \in DOMAIN heap :
         (heap[a].kind = "Selector" /\ ~heap[a].dead) =>
           \A i \in 1..Len(heap[a].weights) : heap[a].weights[i] > 0
    /\ (/\ last.op = "compile" /\ IsSelText(last.text)
        /\ \E c \in Range(Split(last.text, SEL_DEL)) :
              stof(WeightString(c)).ok /\ stof(WeightString(c)).val <= 0)
       => last.err = "NonPositiveWeight"

\* C8: compiling a selector with a clause that has no weight token (a
\* single token, no space) fails with MalformedClause.
C8Claim ==
    (/\ last.op = "compile" /\ IsSelText(last.text)
     /\ \E c \in Range(Split(last.text, SEL_DEL)) : ~Contains(c, <<" ">>))
    => last.err = "MalformedClause"

\* C9: no Repetition node has a negative count, and compiling "A # n" with
\* a negative n fails with InvalidRepetitionCount.
C9Claim ==
    /\ \A a \in DOMAIN heap :
         (heap[a].kind = "Repetition" /\ ~heap[a].dead) => heap[a].count >= 0
    /\ (/\ last.op = "compile" /\ IsRepText(last.text)
        /\ stof(RepetitionString(last.text)).ok
        /\ stof(RepetitionString(last.text)).val < 0)
       => last.err = "InvalidRepetitionCount"

\* C10: on a string grammar compile(name, token) with an operator-free token
\* succeeds and leaves name and token registered with one node, creating no
\* composite node; a token that was not registered gets a new Leaf holding
\* the token, so both names generate [token]; a registered token keeps its
\* node.
C10Theorem ==
    [][(stringData /\ last'.op = "compile" /\ IsBareText(last'.text)) =>
         LET name == last'.name
             token == last'.text
         IN /\ last'.err = "ok"
            /\ name \in DOMAIN reg' /\ token \in DOMAIN reg'
            /\ reg'[name] = reg'[token]
            /\ \A a \in DOMAIN heap' :
                 heap'[a].kind # "Leaf" =>
                   a \in DOMAIN heap /\ heap[a].kind = heap'[a].kind
            /\ IF token \in DOMAIN reg THEN reg'[token] = reg[token]
               ELSE /\ heap'[reg'[token]] = LeafNode(token)
                    /\ Generate(reg', heap', token) = {Res("ok", <<token>>)}
                    /\ Generate(reg', heap', name) = {Res("ok", <<token>>)}]_vars

\* a registered rule made the synonym of a token that was not registered
C10Witness ==
    /\ stringData /\ Compiled(last) /\ IsBareText(last.text)
    /\ last.name # last.text
    /\ last.fresh = {last.text}
    /\ reg[last.name] = reg[last.text]
    /\ heap[reg[last.text]] = LeafNode(last.text)

\* C11: on a grammar of a payload type other than std::string,
\* compile(name, token) with an operator-free token that is not registered
\* fails with RuleNotFound (Rule404Exception) and registers nothing: the
\* registry and its nodes are as before, neither name nor token is added.
C11Theorem ==
    [][(/\ ~stringData /\ last'.op = "compile" /\ IsBareText(last'.text)
        /\ last'.text \notin DOMAIN reg) =>
         /\ last'.err = "Rule404"
         /\ reg' = reg
         /\ heap' = heap
         /\ last'.text \notin DOMAIN reg'
         /\ (last'.name \notin DOMAIN reg => last'.name \notin DOMAIN reg')]_vars

\* the failed alias of an unknown token, in a grammar that holds leaves
C11Witness ==
    /\ ~stringData /\ last.op = "compile" /\ IsBareText(last.text)
    /\ last.err = "Rule404"
    /\ last.text \notin DOMAIN reg /\ last.name \notin DOMAIN reg
    /\ reg # <<>>

\* the addresses reachable from S along child references, never passing
\* through an LNode
RECURSIVE UnguardedFrom(_, _)
UnguardedFrom(h, S) ==
    LET more == UNION {Range(h[a].kids) :
                       a \in {b \in S \cap DOMAIN h : h[b].kind # "LNode"}}
    IN IF more \subseteq S THEN S ELSE UnguardedFrom(h, S \cup more)

\* C12: after any compile and register_leaf operations no Sequence, Selector
\* or Repetition node is reachable from itself along child references that
\* avoid every Fallback node: every cycle of the graph passes through a
\* Fallback, also after compiling a rule whose text names the rule itself.
C12Claim ==
    \A a \in DOMAIN heap :
      (~heap[a].dead /\ heap[a].kind \in {"Sequence", "Selector", "Repetition"})
        => a \notin UnguardedFrom(heap, Range(heap[a].kids))

\* C13: after any compile and register_leaf operations every child
\* reference held by a node reachable from a registry entry points to a node
\* that is alive, that is, owned by a registry entry or by the owning
\* reference of a live node: no node is destroyed while a registered
\* composite still refers to it.
C13Claim ==
    \A a \in ReachFrom(heap, Range(reg)) \cap DOMAIN heap :
      ~heap[a].dead =>
        /\ \A k \in Range(heap[a].kids) : k \in DOMAIN heap /\ ~heap[k].dead
        /\ heap[a].kind = "LNode" =>
              heap[a].fb \in DOMAIN heap /\ ~heap[heap[a].fb].dead

\* the names a rule text refers to, by the operator ParseRule finds in it
Tokens(t) ==
    IF IsLndText(t) THEN {LFallbackName(t), RightOfLnd(t)}
    ELSE IF IsSeqText(t) THEN Range(Split(t, SEQ_DEL))
    ELSE IF IsSelText(t) THEN {ClauseRuleName(c) : c \in Range(Split(t, SEL_DEL))}
    ELSE IF IsRepText(t) THEN {RepRuleName(t)}
    ELSE {t}

\* the names the rule texts of the names in S mention, directly or through
\* the texts of the names they mention
RECURSIVE Mentions(_)
Mentions(S) ==
    LET more == UNION {Tokens(src[n].text) :
                       n \in {m \in S \cap DOMAIN src : src[m].by = "compile"}}
    IN IF more \subseteq S THEN S ELSE Mentions(S \cup more)

\* C14: compile(N, newText) on a registered name N leaves every other rule M
\* whose text does not mention N, directly or through the rules it mentions,
\* as it was: M keeps its registry entry, its node keeps its children, and
\* generate_sequence(M) gives what it gave before, also when N shares its
\* node with a name that M does mention.
C14Claim ==
    [][(Compiled(last') /\ last'.name \in DOMAIN reg) =>
         \A M \in DOMAIN reg \ {last'.name} :
           last'.name \notin Mentions(Tokens(src[M].text)) =>
             /\ reg'[M] = reg[M]
             /\ heap'[reg'[M]] = heap[reg[M]]
             /\ Generate(reg', heap', M) = Generate(reg, heap, M)]_vars

\* C15: a compile that ends with an error leaves the registry as it was:
\* the registered names, the node each name maps to and the contents of
\* those nodes are the ones before the call, and no sub-token resolved
\* before the failing one stays registered.
C15Claim ==
    [][(last'.op = "compile" /\ last'.err # "ok") =>
         /\ reg' = reg
         /\ \A n \in DOMAIN reg : heap'[reg'[n]] = heap[reg[n]]]_vars

\* the references other than the primary reference of an LNode
GuardEdges(h, a) ==
    IF h[a].kind = "LNode" THEN {h[a].fb} ELSE Range(h[a].kids)

RECURSIVE GuardReach(_, _)
GuardReach(h, S) ==
    LET more == UNION {GuardEdges(h, a) : a \in S \cap DOMAIN h}
    IN IF more \subseteq S THEN S ELSE GuardReach(h, S \cup more)

\* Every node reachable from name is alive, every Selector among them has an
\* option to draw, and every cycle among them passes through the primary
\* reference of an LNode: no node reaches itself along other references.
Guarded(r, h, name) ==
    /\ name \in DOMAIN r
    /\ \A a \in ReachFrom(h, {r[name]}) :
         /\ a \in DOMAIN h /\ ~h[a].dead
         /\ h[a].kind = "Selector" => Drawable(h[a].weights) # {}
         /\ a \notin GuardReach(h, GuardEdges(h, a))

\* C16: generate_sequence on a rule whose every cycle passes through the
\* primary reference of a Fallback (all nodes alive, the fallback branches
\* acyclic) eventually returns: evaluation starts at depth 0, a Fallback
\* takes its primary branch with depth + 1 below the limit and its fallback
\* branch from the limit on.
C16Theorem ==
    (eval.on /\ Guarded(reg, heap, eval.name))
      ~> (~eval.on /\ last.op = "generate" /\ last.err = "ok")

\* a rule that is the primary child of its own Fallback, generated: the
\* result is what the fallback branch gives
C16Witness ==
    /\ ~eval.on /\ last.op = "generate" /\ last.err = "ok"
    /\ last.name \in DOMAIN reg
    /\ Guarded(reg, heap, last.name)
    /\ LET n == heap[reg[last.name]]
       IN /\ n.kind = "LNode"
          /\ reg[last.name] \in ReachFrom(heap, {n.kids[1]})
          /\ last.out \in {r.out : r \in Parse(heap, n.fb, DepthLimit, {})}

====
